---- MODULE Spec2Model ----
(***************************************************************************)
(* Model of the XNAT batch downloaders download_freesurfer.py ("fs") and   *)
(* download_pup.py ("pup"): the filter chain of extract_requested_files,   *)
(* the extraction of one archive into the resource folder, and the batch   *)
(* loop of the main block over the identifiers of the manifest, preceded   *)
(* by the authentication loop; two runs sharing a destination directory;   *)
(* and the batch loop of download_scans.py ("scans").                      *)
(*                                                                         *)
(* Strings that the code splits or searches (archive entry names) are      *)
(* sequences of tokens: the separators "/" and "." are tokens of their     *)
(* own, every other token is a run of characters holding neither.          *)
(* Archives hold file entries only (no directory entries).                 *)
(***************************************************************************)
EXTENDS Integers, Sequences, FiniteSets, TLC

VARIABLES
    script,             \* which program runs: "fs", "pup" or "scans"
    flags,              \* the --download-* options given on the command line
    pc,                 \* position of the program
    resource_name,      \* the bundle being handled: "DATA", "LOG", "SNAPSHOTS"
    subfilename,        \* name of the archive entry under examination
    download_this_file, \* the decision of the if/elif chain for that entry
    zip,                \* the archive's entries, in namelist order
    pos,                \* index in zip of the entry under examination
    files,              \* files below resource_folder_path: relative path -> data
    dirs,               \* directories below resource_folder_path
    manifest,           \* the rows of the csv of identifiers, in order
    row,                \* number of rows the csv loop has read
    status,             \* per row: "pending", "done" or "failed"
    experiment_id,      \* parent token of the identifier in hand
    session_label,      \* what get_session_label returned for it
    resource_list,      \* bundles still to fetch for it
    download_result_code, \* what download_resource_contents returned
    temp_zip,           \* the temporary archive file of the bundle in hand
    catalog,            \* catalog rows written for the identifier in hand
    label_response,     \* the answer to the label query of the identifier in hand
    run,                \* how many times extract_requested_files has been called
    first_tree,         \* files and dirs as the first call left them
    auth_status,        \* status code of the answer to the credential check
    num_password_retries, \* the counter of the authentication loop
    proc,               \* concurrent runs: per run its position, identifier and bundle
    disk,               \* concurrent runs: temporary archives in the destination
    scans,              \* download_scans: rows of the scan list of the session in hand
    type_list,          \* download_scans: the csv of scan types (given, rows)
    scan_i,             \* download_scans: index of the scan row in hand
    type_i,             \* download_scans: index of the scan type row in hand
    fetched             \* download_scans: scan ids fetched for the session in hand

batchVars == <<manifest, row, status, experiment_id, session_label, resource_list,
               download_result_code, temp_zip, catalog, label_response>>

callVars == <<run, first_tree>>

authVars == <<auth_status, num_password_retries>>

concVars == <<proc, disk>>

scanVars == <<scans, type_list, scan_i, type_i, fetched>>

otherVars == <<authVars, concVars, scanVars>>

vars == <<script, flags, pc, resource_name, subfilename, download_this_file,
          zip, pos, files, dirs, batchVars, callVars, otherVars>>

(***************************************************************************)
(* Bounds of the model.                                                    *)
(***************************************************************************)
MaxFlags == 1
MaxEntries == 2
MaxIds == 2

(***************************************************************************)
(* String operations.                                                      *)
(***************************************************************************)
Scripts == {"fs", "pup"}
Resources == {"SNAPSHOTS", "LOG", "DATA"}

\* str.split(sep) for a one-token separator: the list of pieces, empty ones kept.
RECURSIVE SplitFrom(_, _, _, _)
SplitFrom(s, sep, i, cur) ==
    IF i > Len(s) THEN <<cur>>
    ELSE IF s[i] = sep THEN <<cur>> \o SplitFrom(s, sep, i + 1, <<>>)
    ELSE SplitFrom(s, sep, i + 1, Append(cur, s[i]))

Split(s, sep) == SplitFrom(s, sep, 1, <<>>)

\* Whether sub occurs in s at index i.
OccursAt(s, sub, i) ==
    /\ i + Len(sub) - 1 <= Len(s)
    /\ \A k \in 1..Len(sub) : s[i + k - 1] = sub[k]

\* str.find(sub) scanning from index i: the lowest index of an occurrence, 0 if none.
RECURSIVE Find(_, _, _)
Find(s, sub, i) ==
    IF i + Len(sub) - 1 > Len(s) THEN 0
    ELSE IF OccursAt(s, sub, i) THEN i
    ELSE Find(s, sub, i + 1)

\* str.rfind(sub) scanning down from index i: the highest index, 0 if none.
RECURSIVE RFind(_, _, _)
RFind(s, sub, i) ==
    IF i < 1 THEN 0
    ELSE IF OccursAt(s, sub, i) THEN i
    ELSE RFind(s, sub, i - 1)

\* str.rsplit(sub, 1): cut at the last occurrence.
RSplit1(s, sub) ==
    LET k == RFind(s, sub, Len(s))
    IN  IF k = 0 THEN <<s>>
        ELSE <<SubSeq(s, 1, k - 1), SubSeq(s, k + Len(sub), Len(s))>>

\* str.split(sub, 1): cut at the first occurrence; the whole string when absent.
Split1(s, sub) ==
    LET k == Find(s, sub, 1)
    IN  IF k = 0 THEN <<s>>
        ELSE <<SubSeq(s, 1, k - 1), SubSeq(s, k + Len(sub), Len(s))>>

\* os.path.basename: the last component of a name, the file's own name.
BaseName(name) == LET parts == Split(name, "/") IN parts[Len(parts)]

\* Tokens of the model that hold a shorter token as a substring.
Infixes == {<<"wmparc", "wmparc001">>, <<"SUVR", "SUVR_g8">>, <<"4dfp", "4dfp_old">>}

\* pat in seg, for a pattern without separators.
In(pat, seg) == \E i \in 1..Len(seg) : seg[i] = pat \/ <<pat, seg[i]>> \in Infixes

\* "resources/" + resource_name + "/files/"
Marker(res) == <<"resources", "/", res, "/", "files", "/">>

(***************************************************************************)
(* The selection surface: the --download-* options of each program.        *)
(***************************************************************************)
FsFlags ==
    {"annot", "area", "avg_curv", "bak", "cmd", "crv", "csurfdir", "ctab", "curv",
     "dat", "defect_borders", "defect_chull", "defect_labels", "done", "env", "H",
     "inflated", "jacobian_white", "K", "label", "local_copy", "logs", "lta", "mgh",
     "mgz", "m3z", "mid", "nofix", "old", "orig", "pial", "reg", "smoothwm", "snaps",
     "sphere", "stats", "sulc", "thickness", "touch", "txt", "volume", "white",
     "xdebug_mris_calc", "xfm"}

PupFlags ==
    {"4dfp", "dat", "info", "logs", "lst", "mgz", "moco", "nii", "params", "snaps",
     "sub", "suvr", "tac", "tb", "txt", "no_ext", "SUVR4dfp", "T10014dfp", "PETFOV",
     "RSFMask", "wmparc"}

FlagsOf(s) == IF s = "fs" THEN FsFlags ELSE PupFlags

\* The flags named in the "if no flags are set, download everything" test.
FsDownloadAllList == FsFlags
PupDownloadAllList == PupFlags

download_all(s, f) ==
    \A x \in (IF s = "fs" THEN FsDownloadAllList ELSE PupDownloadAllList) : x \notin f

(***************************************************************************)
(* The if/elif chain of extract_requested_files, as an ordered rule table. *)
(* A rule tests the length of subfilename.split("."), some of its segments *)
(* and one flag; every rule sets download_this_file = True.                *)
(***************************************************************************)
LastEq(tok, flag) ==
    [kind |-> "seg", flag |-> flag, conds |-> <<[at |-> "last", how |-> "eq", tok |-> tok]>>]
SecondEq(tok, flag) ==
    [kind |-> "seg", flag |-> flag, conds |-> <<[at |-> "second", how |-> "eq", tok |-> tok]>>]
SecondIn(tok, flag) ==
    [kind |-> "seg", flag |-> flag, conds |-> <<[at |-> "second", how |-> "in", tok |-> tok]>>]
FirstIn(tok, flag) ==
    [kind |-> "seg", flag |-> flag, conds |-> <<[at |-> "first", how |-> "in", tok |-> tok]>>]
FirstInSecondIn(tok1, tok2, flag) ==
    [kind |-> "seg", flag |-> flag,
     conds |-> <<[at |-> "first", how |-> "in", tok |-> tok1],
                 [at |-> "second", how |-> "in", tok |-> tok2]>>]
FirstEqSecondIn(tok1, tok2, flag) ==
    [kind |-> "seg", flag |-> flag,
     conds |-> <<[at |-> "first", how |-> "eq", tok |-> tok1],
                 [at |-> "second", how |-> "in", tok |-> tok2]>>]

AllRule == [kind |-> "all"]

BundleRulesSwapped ==
    <<[kind |-> "bundle", flag |-> "logs", resource |-> "SNAPSHOTS"],
      [kind |-> "bundle", flag |-> "snaps", resource |-> "LOG"]>>

BundleRules ==
    <<[kind |-> "bundle", flag |-> "logs", resource |-> "LOG"],
      [kind |-> "bundle", flag |-> "snaps", resource |-> "SNAPSHOTS"]>>

FsCategoryRules ==
    <<LastEq("annot", "annot"), LastEq("area", "area"), LastEq("avg_curv", "avg_curv"),
      LastEq("bak", "bak"), LastEq("cmd", "cmd"), LastEq("crv", "crv"),
      LastEq("csurfdir", "csurfdir"), LastEq("ctab", "ctab"), LastEq("curv", "curv"),
      LastEq("dat", "dat"), LastEq("defect_borders", "defect_borders"),
      LastEq("defect_chull", "defect_chull"), LastEq("defect_labels", "defect_labels"),
      LastEq("env", "env"), LastEq("H", "H"), LastEq("inflated", "inflated"),
      LastEq("jacobian_white", "jacobian_white"), LastEq("K", "K"),
      LastEq("label", "label"), LastEq("local-copy", "local_copy"),
      LastEq("log", "logs"), LastEq("lta", "lta"), LastEq("m3z", "m3z"),
      LastEq("mgh", "mgh"), LastEq("mgz", "mgz"), LastEq("mid", "mid"),
      LastEq("nofix", "nofix"), LastEq("old", "old"), LastEq("orig", "orig"),
      LastEq("pial", "pial"), LastEq("reg", "reg"), LastEq("smoothwm", "smoothwm"),
      LastEq("sphere", "sphere"), LastEq("stats", "stats"), LastEq("sulc", "sulc"),
      LastEq("thickness", "thickness"), LastEq("touch", "touch"), LastEq("txt", "txt"),
      LastEq("volume", "volume"), LastEq("white", "white"),
      LastEq("xdebug_mris_calc", "xdebug_mris_calc"), LastEq("xfm", "xfm")>>

PupCategoryRules ==
    <<SecondIn("4dfp", "4dfp"), SecondEq("dat", "dat"), SecondEq("info", "info"),
      SecondEq("log", "logs"), SecondEq("lst", "lst"), SecondEq("mgz", "mgz"),
      SecondEq("moco", "moco"), SecondEq("nii", "nii"), SecondEq("params", "params"),
      SecondEq("sub", "sub"), SecondEq("suvr", "suvr"), SecondEq("tac", "tac"),
      SecondEq("tb", "tb"), SecondEq("txt", "txt"),
      [kind |-> "noext", flag |-> "no_ext"],
      FirstInSecondIn("SUVR", "4dfp", "SUVR4dfp"),
      FirstEqSecondIn("T1001", "4dfp", "T10014dfp"),
      FirstEqSecondIn("petfov", "4dfp", "PETFOV"),
      FirstEqSecondIn("RSFMask", "4dfp", "RSFMask"),
      FirstIn("wmparc", "wmparc")>>

FsChain == <<AllRule>> \o BundleRules \o FsCategoryRules
PupChain == <<AllRule>> \o BundleRules \o PupCategoryRules

\* The chain without its first branch, "if download_all".
ChainWithoutAll(s) == IF s = "fs" THEN Tail(FsChain) ELSE Tail(PupChain)

Chain(s) == IF s = "fs" THEN FsChain ELSE PupChain

\* subfilename_split[0], [1] and [-1]
Seg(split, at) ==
    IF at = "first" THEN split[1]
    ELSE IF at = "second" THEN split[2]
    ELSE split[Len(split)]

Match(m, split) ==
    IF m.how = "eq" THEN Seg(split, m.at) = <<m.tok>> ELSE In(m.tok, Seg(split, m.at))

\* The rule's condition with its "and download_<flag>" conjunct left out.
RuleHoldsFlagForgotten(r, s, f, res, split) ==
    CASE r.kind = "all" -> download_all(s, f)
      [] r.kind = "bundle" -> r.flag \in f /\ res = r.resource
      [] r.kind = "noext" -> Len(split) = 1
      [] r.kind = "seg" ->
            /\ Len(split) > 1
            /\ \A i \in 1..Len(r.conds) : Match(r.conds[i], split)

\* The condition of one if/elif branch.
RuleHolds(r, s, f, res, split) ==
    CASE r.kind = "all" -> download_all(s, f)
      [] r.kind = "bundle" -> r.flag \in f /\ res = r.resource
      [] r.kind = "noext" -> Len(split) = 1 /\ r.flag \in f
      [] r.kind = "seg" ->
            /\ Len(split) > 1
            /\ \A i \in 1..Len(r.conds) : Match(r.conds[i], split)
            /\ r.flag \in f

\* A chain cut off after its first branch: only rules[1] is ever evaluated.
TakenBranchFirstOnly(rules, s, f, res, split) ==
    IF Len(rules) >= 1 /\ RuleHolds(rules[1], s, f, res, split) THEN 1 ELSE 0

\* The branch of the chain that is taken: the first whose condition holds (its
\* index in the chain), 0 when none holds.
TakenBranch(rules, s, f, res, split) ==
    LET holds == {i \in 1..Len(rules) : RuleHolds(rules[i], s, f, res, split)}
    IN  IF holds = {} THEN 0 ELSE CHOOSE i \in holds : \A j \in holds : i <= j

\* download_this_file after the chain: every branch sets True, and the initial
\* False stays when no branch is taken.
ShouldDownload(s, f, res, name) ==
    LET subfilename_split == Split(name, ".")
    IN  TakenBranch(Chain(s), s, f, res, subfilename_split) # 0

(***************************************************************************)
(* Inputs: filter configurations and archive entry names.                  *)
(***************************************************************************)
RECURSIVE SubsetsUpTo(_, _)
SubsetsUpTo(S, k) ==
    IF k = 0 THEN {{}}
    ELSE LET P == SubsetsUpTo(S, k - 1) IN P \cup {p \cup {x} : p \in P, x \in S}

Configs(s) == SubsetsUpTo(FlagsOf(s), MaxFlags)

\* The file suffix each option of download_freesurfer names in its help text.
FsSuffixOf(c) ==
    IF c = "logs" THEN "log" ELSE IF c = "local_copy" THEN "local-copy" ELSE c

FsExts == {FsSuffixOf(c) : c \in FsFlags \ {"snaps"}} \cup {"xyz"}

FsFileNames ==
    {<<"lh", ".", e>> : e \in FsExts}
    \cup {<<"lh", ".", "aparc", ".", e>> : e \in {"annot", "stats", "done", "xyz"}}
    \cup {<<"README">>}

PupExts ==
    {"dat", "info", "log", "lst", "mgz", "moco", "nii", "params", "sub", "suvr", "tac",
     "tb", "txt", "xyz"}

PupStems == {"T1001", "RSFMask", "PETFOV", "petfov", "SUVR_g8", "wmparc001", "x"}

PupFileNames ==
    {<<st, ".", "4dfp", ".", e>> : st \in PupStems, e \in {"hdr", "img"}}
    \cup {<<"x", ".", e>> : e \in PupExts}
    \cup {<<"x", ".", "4dfp", ".", "img", ".", "rec">>, <<"x", ".", "4dfp_old", ".", "hdr">>,
          <<"wmparc001", ".", "nii">>, <<"x", ".", "b", ".", "txt">>, <<"README">>}

FileNames(s) == IF s = "fs" THEN FsFileNames ELSE PupFileNames

\* Directories below resources/<bundle>/files/, one of them with a dot in its name.
SubDirs == {<<>>, <<"tmp", ".", "dat", "/">>}

\* What precedes the relative path: nothing at all (an entry outside the expected
\* layout), or a top-level folder and the marker.
Prefixes(res) == {<<>>, <<"top", "/">> \o Marker(res)}

EntryNames(s, res) ==
    {p \o d \o n : p \in Prefixes(res), d \in SubDirs, n \in FileNames(s)}

(***************************************************************************)
(* Specification SpecFilter: the decision of extract_requested_files for   *)
(* one archive entry, for every configuration, bundle and entry name.      *)
(***************************************************************************)
NoEntry == <<>>
EmptyTree == [p \in {} |-> 0]
None == "None"
NoResponse == [status |-> 0, rows |-> <<>>]

\* No batch runs: the function under study is called on its own.
NoBatch ==
    /\ manifest = <<>>
    /\ row = 0
    /\ status = <<>>
    /\ experiment_id = <<>>
    /\ session_label = None
    /\ resource_list = <<>>
    /\ download_result_code = 0
    /\ temp_zip = "absent"
    /\ catalog = <<>>
    /\ label_response = NoResponse

\* extract_requested_files has not been called before.
FirstCall ==
    /\ run = 1
    /\ first_tree = [files |-> EmptyTree, dirs |-> {}]

\* The credential check was answered 200 at the first pass of the loop.
Authenticated ==
    /\ auth_status = 200
    /\ num_password_retries = 2

\* One run only uses the destination.
NoOtherRun ==
    /\ proc = <<>>
    /\ disk = {}

\* scan_type_list is None: no csv of scan types was given.
NoTypeList == [given |-> FALSE, rows |-> <<>>]

\* download_scans does not run.
NoScans ==
    /\ scans = <<>>
    /\ type_list = NoTypeList
    /\ scan_i = 0
    /\ type_i = 0
    /\ fetched = <<>>

InitFilter ==
    /\ script \in Scripts
    /\ flags \in Configs(script)
    /\ pc = "filter"
    /\ resource_name = "DATA"
    /\ subfilename = NoEntry
    /\ download_this_file = FALSE
    /\ zip = <<>>
    /\ pos = 0
    /\ files = EmptyTree
    /\ dirs = {}
    /\ NoBatch
    /\ FirstCall
    /\ Authenticated
    /\ NoOtherRun
    /\ NoScans

\* One pass of the loop body down to the end of the if/elif chain.
FilterEntry ==
    /\ pc = "filter"
    /\ \E res \in Resources : \E name \in EntryNames(script, res) :
          /\ resource_name' = res
          /\ subfilename' = name
          /\ download_this_file' = ShouldDownload(script, flags, res, name)
    /\ pc' = "filtered"
    /\ UNCHANGED <<script, flags, zip, pos, files, dirs, batchVars, callVars, otherVars>>

NextFilter == FilterEntry

SpecFilter == InitFilter /\ [][NextFilter]_vars

(***************************************************************************)
(* The tree below resource_folder_path.  A path is the token sequence of   *)
(* its name relative to resource_folder_path; <<>> is the folder itself.   *)
(* The data of a file is named by the archive entry it was read from.      *)
(***************************************************************************)
\* The directories a path lies in, the resource folder itself left out.
Ancestors(p) == {SubSeq(p, 1, i - 1) : i \in {j \in 1..Len(p) : p[j] = "/"}}

Exists(p) == p = <<>> \/ p \in DOMAIN files \/ p \in dirs
IsDir(p) == p = <<>> \/ p \in dirs

\* Whether p is d or lies below d.
Under(p, d) == Len(p) >= Len(d) /\ SubSeq(p, 1, Len(d)) = d
               /\ (Len(p) = Len(d) \/ p[Len(d) + 1] = "/")

\* The tree with data written to file p, created or truncated.
WriteFile(tree, p, data) == [q \in DOMAIN tree \cup {p} |-> IF q = p THEN data ELSE tree[q]]

RemoveFiles(tree, gone) == [q \in DOMAIN tree \ gone |-> tree[q]]

\* Creating p's directories and opening p for writing fails when a directory of
\* the path is a file, or p is a directory.
WriteBlocked(p) == p = <<>> \/ p \in dirs \/ \E a \in Ancestors(p) : a \in DOMAIN files

\* new_file_base.rsplit("/", 1)[0] when new_file_base holds a "/", else "".
NewFileLocation(new_file_base) ==
    IF \E i \in 1..Len(new_file_base) : new_file_base[i] = "/"
    THEN RSplit1(new_file_base, <<"/">>)[1]
    ELSE <<>>

\* os.path.join(a, b) below the resource folder.
Join(a, b) == IF a = <<>> THEN b ELSE IF b = <<>> THEN a ELSE a \o <<"/">> \o b

\* The split that yields new_file_base, cut at the last occurrence instead.
NewFileBaseArrLast(name, res) == RSplit1(name, Marker(res))

\* new_file_base_arr = subfilename.split("resources/" + resource_name + "/files/", 1)
NewFileBaseArr(name, res) == Split1(name, Marker(res))

(***************************************************************************)
(* Archives.  An archive is the list of its entry names; all entries of an *)
(* archive share what precedes "resources/", as in an archive made by      *)
(* zipping one tree, and an entry either follows the layout                *)
(* <prefix>resources/<bundle>/files/<relative path> or lies elsewhere      *)
(* below the prefix.                                                       *)
(***************************************************************************)
\* Before "resources/": nothing, the archive's top-level folder, or a top-level
\* folder named like a folder of the bundle.
ArchivePrefixes == {<<>>, <<"top", "/">>, <<"surf", "/">>}

ExtractFileNames == {<<"a", ".", "txt">>, <<"README">>}

LayoutEntries(res) ==
    {Marker(res) \o d \o n : d \in {<<>>, <<"surf", "/">>, Marker(res)}, n \in ExtractFileNames}

OffLayoutEntries ==
    {<<"other", "/">> \o d \o n : d \in {<<>>, <<"surf", "/">>}, n \in ExtractFileNames}

RECURSIVE DistinctSeqs(_, _)
DistinctSeqs(S, k) ==
    IF k = 0 THEN {<<>>}
    ELSE LET shorter == DistinctSeqs(S, k - 1)
         IN  shorter \cup {Append(q, x) : q \in {r \in shorter : Len(r) = k - 1}, x \in S}

IsOneToOne(q) == \A i, j \in 1..Len(q) : q[i] = q[j] => i = j

Archives(res) ==
    {[i \in 1..Len(q) |-> p \o q[i]] :
        p \in ArchivePrefixes,
        q \in {r \in DistinctSeqs(LayoutEntries(res) \cup OffLayoutEntries, MaxEntries) :
                  IsOneToOne(r)}}

\* Configurations under which archives are extracted: include-all, a whole-bundle
\* flag, a category that selects some of the entries, and two flags at once.
ExtractConfigs == {{}, {"logs"}, {"txt"}, {"snaps", "txt"}}

(***************************************************************************)
(* extract_requested_files, one archive entry at a time.                   *)
(***************************************************************************)
\* The entry extracted whatever the chain decided.
ExtractThisFileAlways(decision) == TRUE

\* if download_this_file: the guard of the extraction of the entry.
ExtractThisFile(decision) == decision

\* download_freesurfer: one pass of the loop: the chain, then the copy of the
\* entry to resource_folder_path / new_file_base.
FsExtractEntry ==
    /\ pc = "extract" /\ script = "fs" /\ pos <= Len(zip)
    /\ LET name == zip[pos]
           take == ShouldDownload(script, flags, resource_name, name)
           new_file_base_arr == NewFileBaseArr(name, resource_name)
       IN  /\ subfilename' = name
           /\ download_this_file' = take
           /\ IF ~ExtractThisFile(take)
              THEN /\ pos' = pos + 1
                   /\ UNCHANGED <<pc, files, dirs>>
              ELSE IF Len(new_file_base_arr) < 2
              THEN \* new_file_base_arr[1]: IndexError
                   /\ pc' = "raised"
                   /\ UNCHANGED <<pos, files, dirs>>
              ELSE LET final_file_path == new_file_base_arr[2]
                   IN  IF WriteBlocked(final_file_path)
                       THEN /\ pc' = "raised"
                            /\ UNCHANGED <<pos, files, dirs>>
                       ELSE /\ dirs' = dirs \cup Ancestors(final_file_path)
                            /\ files' = WriteFile(files, final_file_path, name)
                            /\ pos' = pos + 1
                            /\ UNCHANGED pc
    /\ UNCHANGED <<script, flags, resource_name, zip, batchVars, callVars, otherVars>>

\* download_pup: the chain, then pupzip.extract(subfilename, resource_folder_path).
PupExtractEntry ==
    /\ pc = "extract" /\ script = "pup" /\ pos <= Len(zip)
    /\ LET name == zip[pos]
           take == ShouldDownload(script, flags, resource_name, name)
       IN  /\ subfilename' = name
           /\ download_this_file' = take
           /\ IF ~ExtractThisFile(take)
              THEN /\ pos' = pos + 1
                   /\ UNCHANGED <<pc, files, dirs>>
              ELSE IF WriteBlocked(name)
              THEN /\ pc' = "raised"
                   /\ UNCHANGED <<pos, files, dirs>>
              ELSE /\ dirs' = dirs \cup Ancestors(name)
                   /\ files' = WriteFile(files, name, name)
                   /\ pc' = "extracted"
                   /\ UNCHANGED pos
    /\ UNCHANGED <<script, flags, resource_name, zip, batchVars, callVars, otherVars>>

\* download_pup: new_file_base, os.makedirs of its folder, shutil.move of the
\* extracted file into that folder.
PupMoveEntry ==
    /\ pc = "extracted"
    /\ LET new_file_base_arr == NewFileBaseArr(subfilename, resource_name)
       IN  IF Len(new_file_base_arr) < 2
           THEN \* new_file_base_arr[1]: IndexError
                /\ pc' = "raised"
                /\ UNCHANGED <<files, dirs>>
           ELSE LET new_file_base == new_file_base_arr[2]
                    new_file_location == NewFileLocation(new_file_base)
                    made == IF Exists(new_file_location) THEN {}
                            ELSE Ancestors(new_file_location) \cup {new_file_location}
                    real_dst == IF IsDir(new_file_location) \/ made # {}
                                THEN Join(new_file_location, BaseName(subfilename))
                                ELSE new_file_location
                IN  IF \/ made # {} /\ \E a \in made : a \in DOMAIN files
                       \/ (IsDir(new_file_location) \/ made # {}) /\ Exists(real_dst)
                    THEN \* os.makedirs: FileExistsError; shutil.move: shutil.Error
                         /\ pc' = "raised"
                         /\ UNCHANGED <<files, dirs>>
                    ELSE /\ dirs' = dirs \cup made
                         /\ files' = WriteFile(RemoveFiles(files, {subfilename}), real_dst,
                                               files[subfilename])
                         /\ pc' = "moved"
    /\ UNCHANGED <<script, flags, resource_name, subfilename, download_this_file, zip, pos,
                   batchVars, callVars, otherVars>>

\* download_pup: shutil.rmtree of the first folder of the entry's name.
PupRemoveFolder ==
    /\ pc = "moved"
    /\ LET first_folder_path == Split(subfilename, "/")[1]
       IN  IF first_folder_path \notin dirs
           THEN \* shutil.rmtree: FileNotFoundError or NotADirectoryError
                /\ pc' = "raised"
                /\ UNCHANGED <<pos, files, dirs>>
           ELSE /\ files' = RemoveFiles(files, {p \in DOMAIN files : Under(p,
                   first_folder_path)})
                /\ dirs' = {d \in dirs : ~Under(d, first_folder_path)}
                /\ pos' = pos + 1
                /\ pc' = "extract"
    /\ UNCHANGED <<script, flags, resource_name, subfilename, download_this_file, zip,
                   batchVars, callVars, otherVars>>

\* The loop ends and extract_requested_files returns.
ExtractReturn ==
    /\ pc = "extract" /\ pos > Len(zip)
    /\ pc' = "returned"
    /\ UNCHANGED <<script, flags, resource_name, subfilename, download_this_file, zip,
                   pos, files, dirs, batchVars, callVars, otherVars>>

(***************************************************************************)
(* Specification SpecExtract: extract_requested_files called on one valid  *)
(* archive with an empty resource folder.                                  *)
(***************************************************************************)
InitExtract ==
    /\ script \in Scripts
    /\ flags \in ExtractConfigs
    /\ pc = "extract"
    /\ resource_name \in Resources
    /\ subfilename = NoEntry
    /\ download_this_file = FALSE
    /\ zip \in Archives(resource_name)
    /\ pos = 1
    /\ files = EmptyTree
    /\ dirs = {}
    /\ NoBatch
    /\ FirstCall
    /\ Authenticated
    /\ NoOtherRun
    /\ NoScans

NextExtract ==
    \/ FsExtractEntry
    \/ PupExtractEntry
    \/ PupMoveEntry
    \/ PupRemoveFolder
    \/ ExtractReturn

SpecExtract == InitExtract /\ [][NextExtract]_vars

(***************************************************************************)
(* Specification SpecTwice: extract_requested_files called on one valid    *)
(* archive with an empty resource folder, then called again with the same  *)
(* archive, bundle and options on the folder as the first call left it.    *)
(***************************************************************************)
ExtractAgain ==
    /\ pc = "returned" /\ run = 1
    /\ run' = 2
    /\ first_tree' = [files |-> files, dirs |-> dirs]
    /\ pos' = 1
    /\ pc' = "extract"
    /\ UNCHANGED <<script, flags, resource_name, subfilename, download_this_file, zip,
                   files, dirs, batchVars, otherVars>>

NextTwice ==
    \/ FsExtractEntry
    \/ PupExtractEntry
    \/ PupMoveEntry
    \/ PupRemoveFolder
    \/ ExtractReturn
    \/ ExtractAgain

SpecTwice == InitExtract /\ [][NextTwice]_vars

(***************************************************************************)
(* The batch: the csv loop of the main block, download_one_fs and          *)
(* download_one_pup.  The run has authenticated and writes its logs        *)
(* (--create-logs).  Identifiers of a manifest differ from each other, so   *)
(* the resource folder and the temporary archive of a bundle are new when  *)
(* the bundle is reached: files, dirs and temp_zip describe those of the   *)
(* bundle in hand, catalog the rows written for the identifier in hand.    *)
(***************************************************************************)
Delimiter(s) == IF s = "fs" THEN "_freesurfer_" ELSE "_PUPTIMECOURSE_"

\* Identifiers: one of the family, one that holds the family delimiter twice,
\* one without the family delimiter.
Ids(s) ==
    {<<"E1", Delimiter(s), "1">>, <<"E2", Delimiter(s), "1", Delimiter(s), "2">>, <<"E3">>}

\* The parent token, cut at the last occurrence of the delimiter instead.
ExperimentIdLast(id, s) == RSplit1(id, <<Delimiter(s)>>)[1]

\* experiment_id = assessor_id.split(delimiter)[0]
ExperimentId(id, s) == Split(id, Delimiter(s))[1]

Manifests(s) == {m \in DistinctSeqs(Ids(s), MaxIds) : IsOneToOne(m)}

BatchConfigs == {{}, {"logs"}, {"txt"}, {"snaps"}}

\* Answers to the label query: 404, another error status, a csv with the
\* header row only, a csv with the header row and a data row.
LabelResponses ==
    {[status |-> 404, rows |-> <<>>],
     [status |-> 500, rows |-> <<>>],
     [status |-> 200, rows |-> <<<<"ID", "label">>>>],
     [status |-> 200, rows |-> <<<<"ID", "label">>, <<"E1", "L1">>>>]}

\* Status codes of a bundle fetch.
StatusCodes == {200, 204, 404, 500}

\* response.raise_for_status() raises HTTPError for these.
IsHTTPError(code) == code >= 400

\* The loop of get_session_label over the rows of the csv, from row i on, with
\* column col of a row taken as the label.
RECURSIVE LabelFromRows(_, _, _, _)
LabelFromRows(rows, i, label, col) ==
    IF i > Len(rows) THEN label
    ELSE LabelFromRows(rows, i + 1, IF rows[i][1] # "ID" THEN rows[i][col] ELSE label, col)

\* The label read from the first column of the data row.
GetLabelFirstColumn(response) ==
    IF IsHTTPError(response.status) THEN None
    ELSE LabelFromRows(response.rows, 1, None, 1)

\* What get_session_label returns.
GetLabel(response) ==
    IF IsHTTPError(response.status) THEN None
    ELSE LabelFromRows(response.rows, 1, None, 2)

\* The catalog rows get_session_label writes.
LabelRows(response) ==
    IF response.status = 404 THEN <<[kind |-> "parent_not_found"]>>
    ELSE IF IsHTTPError(response.status)
    THEN <<[kind |-> "parent_error", code |-> response.status]>>
    ELSE <<>>

\* The test of the label that lets every identifier through.
HasLabelAlways(label) == TRUE

\* if session_label is not None
HasLabel(label) == label # None

\* zipfile.is_zipfile taken to hold of every file.
IsZipfileAlways(t) == TRUE

\* zipfile.is_zipfile of the temporary archive
IsZipfile(t) == t = "valid"

\* The catalog row of a failed fetch that states 404 whatever the code.
ErrorRowNotFound(code, res) == [kind |-> "error", code |-> 404, resource |-> res]

\* The catalog row of a fetch whose result code is not 200.
ErrorRow(code, res) == [kind |-> "error", code |-> code, resource |-> res]

\* The loop over resource_list left at the first bundle that is done with.
NextBundlesNone(list) == <<>>

\* for resource_name in resource_list: what is left after the bundle in hand.
NextBundles(list) == Tail(list)

\* os.remove that leaves the file.
OsRemoveNothing(t) == t

\* os.remove of the temporary archive
OsRemove(t) == "absent"

\* Valid archives a bundle fetch may deliver: one that follows the layout, and
\* one whose first entry lies outside resources/<bundle>/files/.
BatchArchives(res) ==
    {<<<<"top", "/">> \o Marker(res) \o <<"a", ".", "txt">>>>,
     <<<<"top", "/", "other", "/", "a", ".", "txt">>,
       <<"top", "/">> \o Marker(res) \o <<"a", ".", "txt">>>>}

\* The condition of resource_list.append("DATA") without download_logs.
DataFlagsWithoutLogs(s) == FlagsOf(s) \ {"snaps", "logs"}

\* The flags that put DATA in resource_list.
DataFlags(s) == FlagsOf(s) \ {"snaps"}

ResourceList(s, f) ==
    (IF "snaps" \in f \/ download_all(s, f) THEN <<"SNAPSHOTS">> ELSE <<>>)
    \o (IF "logs" \in f \/ download_all(s, f) THEN <<"LOG">> ELSE <<>>)
    \o (IF download_all(s, f) \/ f \cap DataFlags(s) # {} THEN <<"DATA">> ELSE <<>>)

\* for row in csv_reader: the next identifier and its parent token.
NextRow ==
    /\ pc = "row" /\ row < Len(manifest)
    /\ row' = row + 1
    /\ experiment_id' = ExperimentId(manifest[row + 1], script)
    /\ session_label' = None
    /\ catalog' = <<>>
    /\ label_response' = NoResponse
    /\ pc' = "label"
    /\ UNCHANGED <<script, flags, resource_name, subfilename, download_this_file, zip, pos,
                   files, dirs, manifest, status, resource_list, download_result_code,
                   temp_zip, callVars, otherVars>>

\* get_session_label and the test of its result in download_one_fs/_pup.
GetSessionLabel ==
    /\ pc = "label"
    /\ \E response \in LabelResponses :
          LET label == GetLabel(response)
              rows == LabelRows(response)
          IN  /\ label_response' = response
              /\ session_label' = label
              /\ IF HasLabel(label)
                 THEN /\ resource_list' = ResourceList(script, flags)
                      /\ catalog' = catalog \o rows
                      /\ pc' = "bundle"
                      /\ UNCHANGED status
                 ELSE /\ catalog' = catalog \o rows \o <<[kind |-> "no_label"]>>
                      /\ status' = [status EXCEPT ![row] = "failed"]
                      /\ pc' = "row"
                      /\ UNCHANGED resource_list
    /\ UNCHANGED <<script, flags, resource_name, subfilename, download_this_file, zip, pos,
                   files, dirs, manifest, row, experiment_id, download_result_code,
                   temp_zip, callVars, otherVars>>

\* download_resource_contents for the next bundle of resource_list.
DownloadResourceContents ==
    /\ pc = "bundle" /\ resource_list # <<>>
    /\ resource_name' = Head(resource_list)
    /\ \E code \in StatusCodes :
          /\ download_result_code' = code
          /\ IF IsHTTPError(code)
             THEN /\ temp_zip' = "absent"
                  /\ zip' = <<>>
             ELSE \* download_file writes the body of the response
                  \/ /\ temp_zip' = "invalid"
                     /\ zip' = <<>>
                  \/ /\ temp_zip' = "valid"
                     /\ zip' \in BatchArchives(Head(resource_list))
    /\ pc' = "fetched"
    /\ UNCHANGED <<script, flags, subfilename, download_this_file, pos, files, dirs,
                   manifest, row, status, experiment_id, session_label, resource_list,
                   catalog, label_response, callVars, otherVars>>

\* The test of the result code and of zipfile.is_zipfile: go on to extract into
\* the resource folder, or write the catalog row of the failure.
CheckZip ==
    /\ pc = "fetched"
    /\ IF download_result_code = 200 /\ IsZipfile(temp_zip)
       THEN /\ files' = EmptyTree
            /\ dirs' = {}
            /\ pos' = 1
            /\ pc' = "extract"
            /\ UNCHANGED <<resource_list, catalog>>
       ELSE /\ catalog' = Append(catalog,
                             IF download_result_code # 200
                             THEN ErrorRow(download_result_code, resource_name)
                             ELSE [kind |-> "invalid_zip", resource |-> resource_name])
            /\ resource_list' = NextBundles(resource_list)
            /\ pc' = "bundle"
            /\ UNCHANGED <<pos, files, dirs>>
    /\ UNCHANGED <<script, flags, resource_name, subfilename, download_this_file, zip,
                   manifest, row, status, experiment_id, session_label,
                   download_result_code, temp_zip, label_response, callVars, otherVars>>

\* After extract_requested_files has returned: os.remove of the temporary
\* archive, then the catalog row of the success.
RemoveZip ==
    /\ pc = "returned"
    /\ temp_zip' = OsRemove(temp_zip)
    /\ catalog' = Append(catalog, [kind |-> "success", resource |-> resource_name])
    /\ resource_list' = NextBundles(resource_list)
    /\ pc' = "bundle"
    /\ UNCHANGED <<script, flags, resource_name, subfilename, download_this_file, zip, pos,
                   files, dirs, manifest, row, status, experiment_id, session_label,
                   download_result_code, label_response, callVars, otherVars>>

\* resource_list is exhausted: download_one_fs/_pup returns to the csv loop.
DownloadOneReturn ==
    /\ pc = "bundle" /\ resource_list = <<>>
    /\ status' = [status EXCEPT ![row] = "done"]
    /\ pc' = "row"
    /\ UNCHANGED <<script, flags, resource_name, subfilename, download_this_file, zip, pos,
                   files, dirs, manifest, row, experiment_id, session_label, resource_list,
                   download_result_code, temp_zip, catalog, label_response, callVars, otherVars>>

\* The csv is exhausted: close_xnat_session and the end of the script.
CloseXnatSession ==
    /\ pc = "row" /\ row = Len(manifest)
    /\ pc' = "closed"
    /\ UNCHANGED <<script, flags, resource_name, subfilename, download_this_file, zip, pos,
                   files, dirs, batchVars, callVars, otherVars>>

(***************************************************************************)
(* Specification Spec: one run over a manifest.  An exception that no      *)
(* handler catches ends the run in pc = "raised".                          *)
(***************************************************************************)
Init ==
    /\ script \in Scripts
    /\ flags \in BatchConfigs
    /\ pc = "row"
    /\ resource_name = "DATA"
    /\ subfilename = NoEntry
    /\ download_this_file = FALSE
    /\ zip = <<>>
    /\ pos = 0
    /\ files = EmptyTree
    /\ dirs = {}
    /\ manifest \in Manifests(script)
    /\ row = 0
    /\ status = [i \in 1..Len(manifest) |-> "pending"]
    /\ experiment_id = <<>>
    /\ session_label = None
    /\ resource_list = <<>>
    /\ download_result_code = 0
    /\ temp_zip = "absent"
    /\ catalog = <<>>
    /\ label_response = NoResponse
    /\ FirstCall
    /\ Authenticated
    /\ NoOtherRun
    /\ NoScans

Next ==
    \/ NextRow
    \/ GetSessionLabel
    \/ DownloadResourceContents
    \/ CheckZip
    \/ FsExtractEntry
    \/ PupExtractEntry
    \/ PupMoveEntry
    \/ PupRemoveFolder
    \/ ExtractReturn
    \/ RemoveZip
    \/ DownloadOneReturn
    \/ CloseXnatSession

Spec == Init /\ [][Next]_vars

(***************************************************************************)
(* Specification SpecAuth: the run from the authentication loop of the     *)
(* main block on.  session.get returns the response whatever its status    *)
(* (raise_for_status is not called on it), so the handler of HTTPError,    *)
(* which holds the retry, is never entered.                                *)
(***************************************************************************)
\* Status codes of the answer to the credential check.
AuthStatusCodes == {200, 401}

InitAuth ==
    /\ script \in Scripts
    /\ flags \in BatchConfigs
    /\ pc = "auth"
    /\ resource_name = "DATA"
    /\ subfilename = NoEntry
    /\ download_this_file = FALSE
    /\ zip = <<>>
    /\ pos = 0
    /\ files = EmptyTree
    /\ dirs = {}
    /\ manifest \in Manifests(script)
    /\ row = 0
    /\ status = [i \in 1..Len(manifest) |-> "pending"]
    /\ experiment_id = <<>>
    /\ session_label = None
    /\ resource_list = <<>>
    /\ download_result_code = 0
    /\ temp_zip = "absent"
    /\ catalog = <<>>
    /\ label_response = NoResponse
    /\ FirstCall
    /\ auth_status = 0
    /\ num_password_retries = 1
    /\ NoOtherRun
    /\ NoScans

\* One pass of the while loop: the credential check, then the else branch of
\* the try, which goes on to the csv loop.
Authenticate ==
    /\ pc = "auth" /\ num_password_retries <= 3
    /\ num_password_retries' = num_password_retries + 1
    /\ auth_status' \in AuthStatusCodes
    /\ pc' = "row"
    /\ UNCHANGED <<script, flags, resource_name, subfilename, download_this_file, zip, pos,
                   files, dirs, batchVars, callVars, concVars, scanVars>>

NextAuth ==
    \/ Authenticate
    \/ NextRow
    \/ GetSessionLabel
    \/ DownloadResourceContents
    \/ CheckZip
    \/ FsExtractEntry
    \/ PupExtractEntry
    \/ PupMoveEntry
    \/ PupRemoveFolder
    \/ ExtractReturn
    \/ RemoveZip
    \/ DownloadOneReturn
    \/ CloseXnatSession

SpecAuth == InitAuth /\ [][NextAuth]_vars

(***************************************************************************)
(* Specification SpecBundles: the resource_list that download_one_fs and   *)
(* download_one_pup build for an identifier whose label was found, for     *)
(* every configuration.                                                    *)
(***************************************************************************)
InitBundles ==
    /\ script \in Scripts
    /\ flags \in Configs(script)
    /\ pc = "resources"
    /\ resource_name = "DATA"
    /\ subfilename = NoEntry
    /\ download_this_file = FALSE
    /\ zip = <<>>
    /\ pos = 0
    /\ files = EmptyTree
    /\ dirs = {}
    /\ NoBatch
    /\ FirstCall
    /\ Authenticated
    /\ NoOtherRun
    /\ NoScans

BuildResourceList ==
    /\ pc = "resources"
    /\ resource_list' = ResourceList(script, flags)
    /\ pc' = "listed"
    /\ UNCHANGED <<script, flags, resource_name, subfilename, download_this_file, zip, pos,
                   files, dirs, manifest, row, status, experiment_id, session_label,
                   download_result_code, temp_zip, catalog, label_response, callVars, otherVars>>

NextBundlesList == BuildResourceList

SpecBundles == InitBundles /\ [][NextBundlesList]_vars

(***************************************************************************)
(* Specification SpecScans: one run of download_scans over a csv of        *)
(* session ids, with or without a scan type list.  scans is the scan list  *)
(* of the session in hand, fetched the scan ids download_one_scan was      *)
(* called with for that session, catalog the rows written for it.          *)
(***************************************************************************)
MaxScans == 2
MaxTypes == 2

ScanTypes == {"T1", "T2"}

\* The header row of the scan list csv.
ScanListHeader ==
    [xnat_imagescandata_id |-> "xnat_imagescandata_id", ID |-> "ID", type |-> "type"]

\* The scan list csv of a session: the header row, then one row per scan.
ScanLists ==
    UNION {{<<ScanListHeader>> \o [j \in 1..n |->
                [xnat_imagescandata_id |-> "n", ID |-> ToString(j), type |-> t[j]]] :
            t \in [1..n -> ScanTypes]} : n \in 0..MaxScans}

\* The csv of scan types (-t), or none when the flag is not given.
TypeLists ==
    {NoTypeList} \cup
    {[given |-> TRUE, rows |-> t] : t \in UNION {[1..n -> ScanTypes] : n \in 0..MaxTypes}}

\* if scan_type_list is None: download_all = True.
ScansDownloadAll == ~type_list.given

ScanManifests == {<<<<"S1">>>>, <<<<"S1">>, <<"S2">>>>}

\* What a scan fetch can answer: an error, or 200 with a body that is or is
\* not a zip archive.
ScanFetches ==
    {[code |-> 404, body |-> "absent"],
     [code |-> 200, body |-> "valid"],
     [code |-> 200, body |-> "invalid"]}

\* The entries of a scan archive, below the destination.
ScanArchive(scan_id) == <<<<"scans", "/", scan_id, "/", "f", ".", "dcm">>>>

\* log_downloaded_scans: a row for every scan of the list (ALL), or for the
\* scan whose id is scan_id.
LogDownloadedScans(scan_id) ==
    LET logged(r) == /\ r.xnat_imagescandata_id # "xnat_imagescandata_id"
                     /\ (scan_id = "ALL" \/ scan_id = r.ID)
        rows == SelectSeq(scans, logged)
    IN  [i \in 1..Len(rows) |-> [kind |-> "success", scan |-> rows[i].ID]]

\* download_one_scan(scan_id): the fetch, then extractall, the catalog rows and
\* os.remove for a valid archive; the catalog rows of an error code; for a body
\* that is not a zip archive the print of the last branch reads assessor_id,
\* a name that is bound nowhere, and the NameError ends the run.
DownloadOneScan(scan_id, return_pc) ==
    /\ fetched' = Append(fetched, scan_id)
    /\ \E answer \in ScanFetches :
          /\ download_result_code' = answer.code
          /\ IF answer.code = 200 /\ IsZipfile(answer.body)
             THEN /\ zip' = ScanArchive(scan_id)
                  /\ files' = WriteFile(files, ScanArchive(scan_id)[1], ScanArchive(scan_id)[1])
                  /\ dirs' = dirs \cup Ancestors(ScanArchive(scan_id)[1])
                  /\ catalog' = catalog \o LogDownloadedScans(scan_id)
                  /\ temp_zip' = OsRemove(answer.body)
                  /\ pc' = return_pc
             ELSE IF answer.code # 200
             THEN /\ catalog' = catalog \o
                        <<IF answer.code = 404
                          THEN [kind |-> "not_found", scan |-> scan_id]
                          ELSE [kind |-> "error_code", code |-> answer.code, scan |-> scan_id],
                          [kind |-> "error", code |-> answer.code, scan |-> scan_id]>>
                  /\ temp_zip' = "absent"
                  /\ pc' = return_pc
                  /\ UNCHANGED <<zip, files, dirs>>
             ELSE /\ temp_zip' = answer.body
                  /\ pc' = "raised"
                  /\ UNCHANGED <<zip, files, dirs, catalog>>

InitScans ==
    /\ script = "scans"
    /\ flags = {}
    /\ pc = "row"
    /\ resource_name = "DATA"
    /\ subfilename = NoEntry
    /\ download_this_file = FALSE
    /\ zip = <<>>
    /\ pos = 0
    /\ files = EmptyTree
    /\ dirs = {}
    /\ manifest \in ScanManifests
    /\ row = 0
    /\ status = <<>>
    /\ experiment_id = <<>>
    /\ session_label = None
    /\ resource_list = <<>>
    /\ download_result_code = 0
    /\ temp_zip = "absent"
    /\ catalog = <<>>
    /\ label_response = NoResponse
    /\ FirstCall
    /\ Authenticated
    /\ NoOtherRun
    /\ scans = <<>>
    /\ type_list \in TypeLists
    /\ scan_i = 0
    /\ type_i = 0
    /\ fetched = <<>>

\* for row in csv_reader: session_id = row[0].
ScansNextRow ==
    /\ pc = "row" /\ row < Len(manifest)
    /\ row' = row + 1
    /\ experiment_id' = manifest[row + 1]
    /\ session_label' = None
    /\ label_response' = NoResponse
    /\ catalog' = <<>>
    /\ scans' = <<>>
    /\ fetched' = <<>>
    /\ scan_i' = 0
    /\ type_i' = 0
    /\ files' = EmptyTree
    /\ dirs' = {}
    /\ pc' = "label"
    /\ UNCHANGED <<script, flags, resource_name, subfilename, download_this_file, zip, pos,
                   manifest, status, resource_list, download_result_code, temp_zip,
                   type_list, callVars, authVars, concVars>>

\* get_session_label and the test of its result in download_requested_scans.
ScansGetSessionLabel ==
    /\ pc = "label"
    /\ \E response \in LabelResponses :
          /\ label_response' = response
          /\ session_label' = GetLabel(response)
          /\ catalog' = catalog \o LabelRows(response)
          /\ pc' = IF GetLabel(response) # None THEN "scanlist" ELSE "row"
    /\ UNCHANGED <<script, flags, resource_name, subfilename, download_this_file, zip, pos,
                   files, dirs, manifest, row, status, experiment_id, resource_list,
                   download_result_code, temp_zip, callVars, otherVars>>

\* pull_scans_list and the test of its status code: on 200 the one fetch of
\* ALL, or the loop over the scan list.
PullScansList ==
    /\ pc = "scanlist"
    /\ \/ /\ scans' \in ScanLists
          /\ IF ScansDownloadAll
             THEN pc' = "all" /\ UNCHANGED <<scan_i, type_i>>
             ELSE pc' = "compare" /\ scan_i' = 1 /\ type_i' = 1
       \/ /\ pc' = "row"
          /\ UNCHANGED <<scans, scan_i, type_i>>
    /\ UNCHANGED <<script, flags, resource_name, subfilename, download_this_file, zip, pos,
                   files, dirs, batchVars, callVars, authVars, concVars, type_list, fetched>>

\* download_all: download_one_scan(session_id, session_label, 'ALL', ...).
DownloadAllScans ==
    /\ pc = "all"
    /\ DownloadOneScan("ALL", "row")
    /\ UNCHANGED <<script, flags, resource_name, subfilename, download_this_file, pos,
                   manifest, row, status, experiment_id, session_label, resource_list,
                   label_response, callVars, authVars, concVars,
                   scans, type_list, scan_i, type_i>>

\* The scan row in hand is the header row, which the loop passes over.
IsHeaderRow(scan_row) == scan_row.xnat_imagescandata_id = "xnat_imagescandata_id"

\* One turn of for scantype_row in scantypes_reader: the scan is downloaded when
\* its type equals the row; the loop goes on to the next row of the type list.
CompareScanType ==
    /\ pc = "compare"
    /\ ~IsHeaderRow(scans[scan_i]) /\ type_i <= Len(type_list.rows)
    /\ type_i' = type_i + 1
    /\ IF scans[scan_i].type = type_list.rows[type_i]
       THEN DownloadOneScan(scans[scan_i].ID, "compare")
       ELSE UNCHANGED <<pc, fetched, download_result_code, temp_zip, catalog, zip, files, dirs>>
    /\ UNCHANGED <<script, flags, resource_name, subfilename, download_this_file, pos,
                   manifest, row, status, experiment_id, session_label, resource_list,
                   label_response, callVars, authVars, concVars, scans, type_list, scan_i>>

\* The type list is exhausted for the scan row in hand (or the row is the
\* header): scantypes_file.seek(0), then the next scan row.
NextScanRow ==
    /\ pc = "compare"
    /\ IsHeaderRow(scans[scan_i]) \/ type_i > Len(type_list.rows)
    /\ scan_i < Len(scans)
    /\ scan_i' = scan_i + 1
    /\ type_i' = 1
    /\ UNCHANGED <<script, flags, pc, resource_name, subfilename, download_this_file, zip, pos,
                   files, dirs, batchVars, callVars, authVars, concVars,
                   scans, type_list, fetched>>

\* The scan list is exhausted: download_scans_from_list returns to the csv loop.
ScansFromListReturn ==
    /\ pc = "compare"
    /\ IsHeaderRow(scans[scan_i]) \/ type_i > Len(type_list.rows)
    /\ scan_i = Len(scans)
    /\ pc' = "row"
    /\ UNCHANGED <<script, flags, resource_name, subfilename, download_this_file, zip, pos,
                   files, dirs, batchVars, callVars, otherVars>>

NextScans ==
    \/ ScansNextRow
    \/ ScansGetSessionLabel
    \/ PullScansList
    \/ DownloadAllScans
    \/ CompareScanType
    \/ NextScanRow
    \/ ScansFromListReturn
    \/ CloseXnatSession

SpecScans == InitScans /\ [][NextScans]_vars

(***************************************************************************)
(* Specification SpecConcurrent: two runs of the same script started on    *)
(* the same destination directory, each handling one bundle of one         *)
(* identifier.  The steps of a run are those of the loop body of           *)
(* download_one_fs/_pup that touch the temporary archive: the fetch that   *)
(* writes it, is_zipfile, the extraction that reads it, os.remove.  disk   *)
(* holds the temporary archives of the destination, each with the run that *)
(* wrote it.                                                               *)
(***************************************************************************)
Runs == {"run1", "run2"}
ConcIds == {<<"E1">>, <<"E2">>}
ConcResources == {"DATA", "LOG"}

\* A temporary archive name that leaves the identifier out.
ZipFilenameByBundleOnly(id, res) == <<res, ".", "zip">>

\* zip_filename = assessor_id + '_' + resource_name + '.zip'
ZipFilename(id, res) == id \o <<"_", res, ".", "zip">>

NotStarted == [pc |-> "start", id |-> <<>>, res |-> "DATA", zip_filename |-> <<>>]

\* The temporary archive of the run is in the destination.
OnDisk(name) == \E f \in disk : f.name = name

InitConcurrent ==
    /\ script \in Scripts
    /\ flags = {}
    /\ pc = "concurrent"
    /\ resource_name = "DATA"
    /\ subfilename = NoEntry
    /\ download_this_file = FALSE
    /\ zip = <<>>
    /\ pos = 0
    /\ files = EmptyTree
    /\ dirs = {}
    /\ NoBatch
    /\ FirstCall
    /\ Authenticated
    /\ proc = [r \in Runs |-> NotStarted]
    /\ disk = {}
    /\ NoScans

\* What a step of one of the runs leaves alone.
ConcFrame ==
    UNCHANGED <<script, flags, pc, resource_name, subfilename, download_this_file, zip, pos,
                files, dirs, batchVars, callVars, authVars, scanVars>>

\* download_resource_contents answered with 200: download_file opens the
\* temporary archive for writing, which replaces a file of that name.
ConcFetch ==
    \E r \in Runs :
        /\ proc[r].pc = "start"
        /\ \E id \in ConcIds, res \in ConcResources :
              LET zip_filename == ZipFilename(id, res)
              IN  /\ disk' = {f \in disk : f.name # zip_filename}
                                \cup {[name |-> zip_filename, writer |-> r]}
                  /\ proc' = [proc EXCEPT ![r] = [pc |-> "fetched", id |-> id, res |-> res,
                                                   zip_filename |-> zip_filename]]
        /\ ConcFrame

\* zipfile.is_zipfile(zip_filepath): False for a file that is not there, and
\* the bundle is then done with.
ConcCheckZip ==
    \E r \in Runs :
        /\ proc[r].pc = "fetched"
        /\ proc' = [proc EXCEPT ![r].pc = IF OnDisk(proc[r].zip_filename)
                                          THEN "extracting" ELSE "done"]
        /\ UNCHANGED disk
        /\ ConcFrame

\* extract_requested_files: ZipFile(zip_filepath) raises when the file is not
\* there.
ConcExtract ==
    \E r \in Runs :
        /\ proc[r].pc = "extracting"
        /\ proc' = [proc EXCEPT ![r].pc = IF OnDisk(proc[r].zip_filename)
                                          THEN "extracted" ELSE "raised"]
        /\ UNCHANGED disk
        /\ ConcFrame

\* os.remove(zip_filepath): raises when the file is not there.
ConcRemove ==
    \E r \in Runs :
        /\ proc[r].pc = "extracted"
        /\ disk' = {f \in disk : f.name # proc[r].zip_filename}
        /\ proc' = [proc EXCEPT ![r].pc = IF OnDisk(proc[r].zip_filename)
                                          THEN "done" ELSE "raised"]
        /\ ConcFrame

NextConcurrent ==
    \/ ConcFetch
    \/ ConcCheckZip
    \/ ConcExtract
    \/ ConcRemove

SpecConcurrent == InitConcurrent /\ [][NextConcurrent]_vars

(***************************************************************************)
(* Properties of the filter (specification SpecFilter).                    *)
(***************************************************************************)
Filtered == pc = "filtered"

HasDot(s) == \E i \in 1..Len(s) : s[i] = "."

\* The categories of download_pup whose discriminant is the second
\* dot-delimited segment, compared for equality.
PupSecondSegment ==
    {"dat", "info", "logs", "lst", "mgz", "moco", "nii", "params", "sub", "suvr", "tac",
     "tb", "txt"}

\* Whether the discriminant of the entry name matches category c, the
\* discriminant tokens being the dot-delimited segments of the entry name: the
\* final one in download_freesurfer; the second one, or the first one for the
\* prefix-coded categories, in download_pup (PETFOV in either case of letters).
CategoryMatches(s, c, name) ==
    LET seg == Split(name, ".")
        n == Len(seg)
    IN  IF s = "fs"
        THEN c # "snaps" /\ n > 1 /\ seg[n] = <<FsSuffixOf(c)>>
        ELSE \/ c \in PupSecondSegment /\ n > 1 /\ seg[2] = <<FsSuffixOf(c)>>
             \/ c = "4dfp" /\ n > 1 /\ In("4dfp", seg[2])
             \/ c = "no_ext" /\ n = 1
             \/ c = "SUVR4dfp" /\ n > 1 /\ In("SUVR", seg[1]) /\ In("4dfp", seg[2])
             \/ c = "T10014dfp" /\ n > 1 /\ seg[1] = <<"T1001">> /\ In("4dfp", seg[2])
             \/ c = "PETFOV" /\ n > 1 /\ seg[1] \in {<<"PETFOV">>, <<"petfov">>}
                             /\ In("4dfp", seg[2])
             \/ c = "RSFMask" /\ n > 1 /\ seg[1] = <<"RSFMask">> /\ In("4dfp", seg[2])
             \/ c = "wmparc" /\ n > 1 /\ In("wmparc", seg[1])

C3_IncludeAllSelectsEverything ==
    (Filtered /\ flags = {}) => download_this_file

\* An entry without any dot, outside the expected layout, in the LOG bundle.
C3_Witness ==
    /\ Filtered /\ flags = {} /\ resource_name = "LOG"
    /\ subfilename = <<"README">> /\ download_this_file

\* C4 as claimed: in download_freesurfer, when a suffix category's flag is set,
\* every DATA entry whose final dot-delimited suffix is the category's name is
\* selected.
C4_FsSuffixCategorySelected ==
    (Filtered /\ script = "fs" /\ resource_name = "DATA") =>
        \A c \in flags \ {"snaps"} :
            (HasDot(BaseName(subfilename))
             /\ Split(subfilename, ".")[Len(Split(subfilename, "."))] = <<FsSuffixOf(c)>>)
                => download_this_file

\* The file name that the help text of three options of download_pup names.
PupPrefixStem(c) ==
    IF c = "T10014dfp" THEN "T1001" ELSE IF c = "RSFMask" THEN "RSFMask" ELSE "PETFOV"

\* C5 as claimed: in download_pup with only the T10014dfp (RSFMask, PETFOV) flag
\* set, an entry under resources/DATA/files/ whose file name is
\* T1001.4dfp.<ext> (RSFMask.4dfp.<ext>, PETFOV.4dfp.<ext>) is selected.
C5_PupPrefixCategorySelected ==
    (Filtered /\ script = "pup" /\ resource_name = "DATA") =>
        \A c \in {"T10014dfp", "RSFMask", "PETFOV"} :
            (/\ flags = {c}
             /\ Find(subfilename, Marker("DATA"), 1) # 0
             /\ \E e \in {"hdr", "img"} :
                    BaseName(subfilename) = <<PupPrefixStem(c), ".", "4dfp", ".", e>>)
                => download_this_file

\* C6: with the logs flag set every entry of the LOG bundle is selected, and
\* with the snapshots flag set every entry of the SNAPSHOTS bundle is selected,
\* whatever the entry's name.
C6_BundleFlagSelectsWholeBundle ==
    (Filtered /\ (\/ "logs" \in flags /\ resource_name = "LOG"
                  \/ "snaps" \in flags /\ resource_name = "SNAPSHOTS"))
        => download_this_file

\* A SNAPSHOTS entry whose name matches no category, selected by the bundle flag.
C6_Witness ==
    /\ Filtered /\ flags = {"snaps"} /\ resource_name = "SNAPSHOTS"
    /\ BaseName(subfilename) = <<"x", ".", "xyz">> /\ download_this_file

\* C7 as claimed: in download_pup with only the no-extension flag set, a DATA
\* entry is selected if and only if its file name (the last component of the
\* entry path) contains no dot.
C7_NoExtIffFileNameHasNoDot ==
    (Filtered /\ script = "pup" /\ flags = {"no_ext"} /\ resource_name = "DATA") =>
        (download_this_file <=> ~HasDot(BaseName(subfilename)))

\* C28 as claimed: in download_pup with only the text flag set, a DATA entry
\* is selected if and only if the extension of its file name (what follows the
\* last dot of the last path component) is txt.
C28_TxtIffExtensionIsTxt ==
    (Filtered /\ script = "pup" /\ flags = {"txt"} /\ resource_name = "DATA") =>
        (download_this_file <=>
            LET base == BaseName(subfilename)
                segs == Split(base, ".")
            IN  HasDot(base) /\ segs[Len(segs)] = <<"txt">>)

\* The chain with its branches in the opposite order.
Reversed(rules) == [i \in 1..Len(rules) |-> rules[Len(rules) + 1 - i]]

FsChainReversed == Reversed(FsChain)
PupChainReversed == Reversed(PupChain)

\* Whether some branch of the chain rules holds for the entry in hand.
SomeRuleHolds(rules) ==
    LET subfilename_split == Split(subfilename, ".")
    IN  \E i \in 1..Len(rules) :
            RuleHolds(rules[i], script, flags, resource_name, subfilename_split)

\* The branches of the chain whose condition holds for the entry in hand.
HoldingRules ==
    LET subfilename_split == Split(subfilename, ".")
        rules == Chain(script)
    IN  {i \in 1..Len(rules) :
            RuleHolds(rules[i], script, flags, resource_name, subfilename_split)}

HasMarker(name, res) == \E k \in 1..Len(name) : OccursAt(name, Marker(res), k)

\* What follows the first occurrence of resources/<bundle>/files/ in a name
\* that holds it.
AfterFirstMarker(name, res) ==
    LET k == CHOOSE i \in 1..Len(name) :
                 /\ OccursAt(name, Marker(res), i)
                 /\ \A j \in 1..(i - 1) : ~OccursAt(name, Marker(res), j)
    IN  SubSeq(name, k + Len(Marker(res)), Len(name))

\* The entry is the one whose copy to its final place the next step makes.
AtWrite(name) ==
    \/ script = "fs" /\ pc = "extract" /\ pos <= Len(zip) /\ zip[pos] = name
                     /\ ShouldDownload(script, flags, resource_name, name)
    \/ script = "pup" /\ pc = "extracted" /\ subfilename = name

C9_MarkerlessEntryOnlySkipped ==
    ~(/\ pc = "raised"
      /\ download_this_file
      /\ ~HasMarker(subfilename, resource_name))

Selected(res) == {i \in 1..Len(zip) : ShouldDownload(script, flags, res, zip[i])}

\* The tree the selected entries make: each at the path after the marker, with
\* the entry's data.
ExpectedFiles ==
    LET sel == {i \in Selected(resource_name) : HasMarker(zip[i], resource_name)}
        paths == {AfterFirstMarker(zip[i], resource_name) : i \in sel}
    IN  [p \in paths |->
            zip[CHOOSE i \in sel : AfterFirstMarker(zip[i], resource_name) = p]]

ExpectedDirs == UNION {Ancestors(p) : p \in DOMAIN ExpectedFiles}

\* C10: after extract_requested_files returns, the files below the resource
\* folder are exactly the selected entries, each at its relative path with the
\* entry's data, and no other directory remains.
C10_OutputIsExactlySelectedEntries ==
    pc = "returned" => files = ExpectedFiles /\ dirs = ExpectedDirs

\* C22: no file below the resource folder, at any point of the extraction
\* and at whatever place, holds the data of an entry that the chain does not
\* select.
C22_UnselectedEntryNeverWritten ==
    \A p \in DOMAIN files : ShouldDownload(script, flags, resource_name, files[p])

\* The extraction has returned from an archive with an entry the chain does
\* not select and an entry it wrote.
C22_Witness ==
    /\ pc = "returned"
    /\ \E i \in 1..Len(zip) : ~ShouldDownload(script, flags, resource_name, zip[i])
    /\ files # EmptyTree

(***************************************************************************)
(* Properties of the batch (specification Spec).                           *)
(***************************************************************************)
\* C1: processing of one identifier never aborts the batch: when the run has
\* ended, whatever the label, fetch, validity and layout outcomes of the
\* identifiers before, every identifier of the manifest has been processed
\* and is done or failed.
C1_EveryIdentifierProcessed ==
    pc \in {"closed", "raised"}
    => \A i \in 1..Len(manifest) : status[i] \in {"done", "failed"}

Last(q) == q[Len(q)]

\* The rows of the catalog that are about a bundle.
RowsAbout(res) ==
    {i \in 1..Len(catalog) : "resource" \in DOMAIN catalog[i] /\ catalog[i].resource = res}

\* Positions of the program between the call of extract_requested_files and
\* its end.
InExtraction == pc \in {"extract", "extracted", "moved", "returned", "raised"}

\* C12: when a fetch answers 200 and the file written is not a zip archive, the
\* next step writes the invalid-archive row of that bundle, does not extract,
\* leaves the temporary archive where it is and goes on with the bundles left.
C12_InvalidArchiveRecordedAndKept ==
    [][(pc = "fetched" /\ download_result_code = 200 /\ temp_zip = "invalid")
       => /\ catalog' = Append(catalog, [kind |-> "invalid_zip", resource |-> resource_name])
          /\ pc' = "bundle"
          /\ temp_zip' = "invalid"
          /\ files' = files /\ dirs' = dirs
          /\ resource_list' = Tail(resource_list)]_vars

\* The row of an invalid archive has been written, the file is still there and
\* another bundle is left to fetch.
C12_Witness ==
    /\ pc = "bundle"
    /\ resource_list # <<>>
    /\ catalog # <<>>
    /\ Last(catalog) = [kind |-> "invalid_zip", resource |-> resource_name]
    /\ temp_zip = "invalid"

\* C13: when a fetch answers 404, the next step writes the row of that bundle
\* with the code 404 and goes on with the bundles left; the run never ends in
\* an exception while the code in hand is 404.
C13_NotFoundRecordedAndBatchGoesOn ==
    /\ [][(pc = "fetched" /\ download_result_code = 404)
          => /\ catalog' = Append(catalog, [kind |-> "error", code |-> 404,
                                            resource |-> resource_name])
             /\ pc' = "bundle"
             /\ resource_list' = Tail(resource_list)]_vars
    /\ [](download_result_code = 404 => pc # "raised")

\* A bundle has been fetched after the 404 of the bundle before it was recorded.
C13_Witness ==
    /\ pc = "fetched"
    /\ catalog # <<>>
    /\ Last(catalog).kind = "error"
    /\ Last(catalog).code = 404
    /\ Last(catalog).resource # resource_name

\* C14: a fetch whose code is not 200 is recorded with that code, extraction is
\* never entered with such a code, and a bundle is fetched only while the
\* catalog holds no row about it (no second fetch of the pair).
C14_FailureRecordedWithCodeNoRetry ==
    /\ [][(pc = "fetched" /\ download_result_code # 200)
          => /\ Len(catalog') = Len(catalog) + 1
             /\ Last(catalog').kind = "error"
             /\ Last(catalog').code = download_result_code
             /\ Last(catalog').resource = resource_name
             /\ pc' = "bundle"]_vars
    /\ [](InExtraction => download_result_code = 200)
    /\ [](pc = "fetched" => RowsAbout(resource_name) = {})

\* A fetch that answered 204 with a valid archive has been recorded as a
\* failure with the code 204.
C14_Witness ==
    /\ pc = "bundle"
    /\ catalog # <<>>
    /\ Last(catalog) = [kind |-> "error", code |-> 204, resource |-> resource_name]
    /\ temp_zip = "valid"

\* C15: the success row of a bundle is written only by the step that follows
\* the return of extract_requested_files and removes the temporary archive:
\* once the row is there, the temporary archive of the bundle is not.
C15_SuccessRecordedAfterRemoval ==
    /\ [][(Len(catalog') = Len(catalog) + 1 /\ Last(catalog').kind = "success")
          => /\ pc = "returned"
             /\ temp_zip = "valid"
             /\ temp_zip' = "absent"
             /\ Last(catalog').resource = resource_name]_vars
    /\ [](\A i \in RowsAbout(resource_name) :
             catalog[i].kind = "success" => temp_zip = "absent")

\* A success has been recorded for a bundle whose entry was extracted.
C15_Witness ==
    /\ pc = "bundle"
    /\ catalog # <<>>
    /\ Last(catalog) = [kind |-> "success", resource |-> resource_name]
    /\ files # EmptyTree
    /\ temp_zip = "absent"

\* C16: a fetch is issued for an identifier only when its label is not None,
\* and when get_session_label returns None the identifier is recorded as
\* failed (no label) and the csv loop takes the next row.
C16_NoFetchWithoutLabel ==
    /\ []((pc = "fetched" \/ InExtraction) => session_label # None)
    /\ [][(pc = "label" /\ session_label' = None)
          => /\ pc' = "row"
             /\ status'[row] = "failed"
             /\ Last(catalog').kind = "no_label"]_vars

\* The label query answered 200 with a header row only: the identifier is
\* failed and no bundle was fetched.
C16_Witness ==
    /\ pc = "row" /\ row >= 1
    /\ label_response.status = 200
    /\ session_label = None
    /\ status[row] = "failed"
    /\ RowsAbout("DATA") = {}

\* C17: get_session_label returns None when the label query answers 404 or
\* another error status, and the identifier then fails in the same way in both
\* cases; when the query answers a header row and one data row, it returns
\* the second column of the data row.
C17_LabelIsNoneOnErrorElseSecondColumn ==
    /\ []((label_response # NoResponse /\ label_response.status >= 400)
           => session_label = None)
    /\ []((/\ label_response.status = 200
           /\ Len(label_response.rows) = 2
           /\ label_response.rows[1][1] = "ID"
           /\ label_response.rows[2][1] # "ID")
           => session_label = label_response.rows[2][2])
    /\ [][(pc = "label" /\ label_response'.status >= 400)
          => /\ pc' = "row"
             /\ status'[row] = "failed"
             /\ Last(catalog').kind = "no_label"]_vars

\* The label of a data row has been returned and the bundles are about to be
\* fetched.
C17_Witness ==
    /\ pc = "bundle"
    /\ label_response.status = 200
    /\ Len(label_response.rows) = 2
    /\ session_label = label_response.rows[2][2]

\* What precedes the first occurrence of the family delimiter in an
\* identifier; the identifier when it does not hold the delimiter.
ParentToken(id, s) ==
    LET at == {k \in 1..Len(id) : id[k] = Delimiter(s)}
    IN  IF at = {} THEN id
        ELSE SubSeq(id, 1, (CHOOSE k \in at : \A j \in at : k <= j) - 1)

\* C18: the parent token of the identifier in hand is what precedes the first
\* occurrence of the family delimiter, and the whole identifier when the
\* delimiter is absent.
C18_ParentTokenBeforeFirstDelimiter ==
    row >= 1 => experiment_id = ParentToken(manifest[row], script)

\* The identifier in hand holds the delimiter twice and its parent token stops
\* at the first.
C18_Witness ==
    /\ row >= 1
    /\ Cardinality({k \in 1..Len(manifest[row]) : manifest[row][k] = Delimiter(script)}) = 2
    /\ experiment_id = <<manifest[row][1]>>

Listed(res) == \E i \in 1..Len(resource_list) : resource_list[i] = res

\* C19 as stated: SNAPSHOTS is fetched iff the snaps flag or include-all is
\* set, LOG iff the logs flag or include-all is set, DATA iff include-all is
\* set or a flag other than snaps and logs is set.
C19_DataOnlyForContentFlags ==
    pc = "listed"
    => /\ Listed("SNAPSHOTS") <=> ("snaps" \in flags \/ flags = {})
       /\ Listed("LOG") <=> ("logs" \in flags \/ flags = {})
       /\ Listed("DATA") <=> (flags = {} \/ flags \ {"snaps", "logs"} # {})

\* C19 amended: SNAPSHOTS is fetched iff the snaps flag or include-all is set,
\* LOG iff the logs flag or include-all is set, DATA iff include-all is set or
\* a flag other than snaps is set: the logs flag fetches DATA as well.
C19_DataForEveryFlagButSnaps ==
    pc = "listed"
    => /\ Listed("SNAPSHOTS") <=> ("snaps" \in flags \/ flags = {})
       /\ Listed("LOG") <=> ("logs" \in flags \/ flags = {})
       /\ Listed("DATA") <=> (flags = {} \/ flags \ {"snaps"} # {})

\* With the logs flag alone, LOG and DATA are fetched.
C19_Witness ==
    /\ pc = "listed"
    /\ flags = {"logs"}
    /\ resource_list = <<"LOG", "DATA">>

\* The bundles of the identifier in hand for which a fetch has been issued.
Issued ==
    IF row = 0 \/ session_label = None THEN {}
    ELSE LET all == ResourceList(script, flags)
         IN  {all[i] : i \in 1..(Len(all) - Len(resource_list))}
             \cup (IF pc = "fetched" \/ InExtraction THEN {resource_name} ELSE {})

\* C20: when an identifier is done with or the run has ended, the catalog
\* holds a row about every bundle of the identifier for which a fetch was
\* issued.
C20_EveryFetchedPairHasRow ==
    pc \in {"row", "closed", "raised"} => \A res \in Issued : RowsAbout(res) # {}

\* C23: once the handling of a bundle whose fetch answered 200 with a valid
\* archive has ended, by going on to the next bundle or by an exception, its
\* temporary archive is gone.
C23_ValidArchiveRemovedAfterExtraction ==
    (download_result_code = 200 /\ pc \in {"bundle", "row", "closed", "raised"})
    => temp_zip # "valid"

\* C24: no label lookup and no fetch is issued with the whole identifier as
\* the parent token.
C24_NoLookupWithWholeIdentifier ==
    (pc \in {"label", "fetched"} \/ label_response # NoResponse)
    => experiment_id # manifest[row]

\* C29: when download_resource_contents has returned, the temporary archive
\* has been written if and only if the code returned is 200.
C29_FileWrittenIffCode200 ==
    pc = "fetched" => (temp_zip # "absent" <=> download_result_code = 200)

(***************************************************************************)
(* Properties of the second call (specification SpecTwice).                *)
(***************************************************************************)
\* C11: a second call of extract_requested_files with the same archive, bundle
\* and options on the folder the first call left completes, and leaves the
\* tree the first call left.
C11_SecondCallLeavesSameTree ==
    (run = 2 /\ pc \in {"returned", "raised"})
    => /\ pc = "returned"
       /\ files = first_tree.files
       /\ dirs = first_tree.dirs

(***************************************************************************)
(* Properties of the authentication (specification SpecAuth).              *)
(***************************************************************************)
\* C21: no label lookup is issued unless a credential check was answered with
\* success: a rejected check is retried and the run then ends.
C21_NoLookupUnlessAuthenticated ==
    (pc = "label" \/ label_response # NoResponse) => auth_status = 200

(***************************************************************************)
(* Properties of download_scans (specification SpecScans).                 *)
(***************************************************************************)
\* C26 as claimed: when a scan fetch was answered with 200 and a body that is
\* not a zip archive, the catalog row 'Got invalid zip file' is written for
\* that scan, nothing is extracted, and the run goes on.
C26_InvalidScanArchiveRecordedAndRunContinues ==
    (download_result_code = 200 /\ temp_zip = "invalid") =>
        /\ pc # "raised"
        /\ catalog # <<>>
        /\ Last(catalog).kind = "invalid_zip"
        /\ Last(catalog).scan = Last(fetched)

\* The scan ids the session in hand is to be fetched with: ALL without a type
\* list, else the scans of the list whose type is a row of the type list, each
\* once.
ExpectedFetches ==
    IF ScansDownloadAll THEN <<"ALL">>
    ELSE LET wanted(r) == /\ ~IsHeaderRow(r)
                          /\ \E k \in 1..Len(type_list.rows) : type_list.rows[k] = r.type
             rows == SelectSeq(scans, wanted)
         IN  [i \in 1..Len(rows) |-> rows[i].ID]

\* C27 as claimed: once a session whose label and scan list were retrieved is
\* done with, the fetches issued for it are exactly one fetch of ALL without a
\* type list, and with a type list one fetch per scan whose type is a row of
\* the type list, and none for another scan.
C27_FetchesAreExactlyTheRequestedScans ==
    (pc \in {"row", "closed"} /\ scans # <<>>) => fetched = ExpectedFetches

(***************************************************************************)
(* Properties of concurrent runs (specification SpecConcurrent).           *)
(***************************************************************************)
\* Run a has fetched its temporary archive and has not finished extracting it,
\* and the file a wrote is no longer in the destination: it was replaced or
\* removed.
Clobbered(a) ==
    /\ proc[a].pc \in {"fetched", "extracting"}
    /\ [name |-> proc[a].zip_filename, writer |-> a] \notin disk

\* Run b handles, or has handled, the identifier and bundle of run a.
SameIdentifierAndBundle(a, b) ==
    /\ a # b
    /\ proc[b].pc # "start"
    /\ proc[b].id = proc[a].id
    /\ proc[b].res = proc[a].res

\* C25: the temporary archive name is a function of the identifier and the
\* bundle only, so the archive a run has fetched and not finished extracting
\* is replaced or removed by the other run when, and only when, that run
\* handles the same identifier and bundle.
C25_ArchiveClobberedOnlyBySameIdentifierAndBundle ==
    \A a \in Runs : Clobbered(a) => \E b \in Runs : SameIdentifierAndBundle(a, b)

\* C25 happens: two runs on the same identifier and bundle, and the archive one
\* of them fetched and has not finished extracting was replaced or removed by
\* the other.
C25_Witness ==
    \E a \in Runs, b \in Runs : Clobbered(a) /\ SameIdentifierAndBundle(a, b)

====
